---- MODULE Spec2Model ----
(***************************************************************************)
(* Model of helper.py: the TencentCloudCLBHelper command line tool.        *)
(*                                                                         *)
(* The only mutable state is the load balancer held by the remote gateway  *)
(* (variable lb).  Every tool invocation is a process p that walks through *)
(* online_clb_instance / offline_clb_instance: list, change weight         *)
(* (fetch, guard, mutate), sleep, list again.                              *)
(***************************************************************************)
EXTENDS Integers, Sequences, FiniteSets, TLC

VARIABLES
    lb,           \* the DescribeTargets response the gateway would give now
    pc,           \* pc[p]: position of invocation p in its command
    instance_id,  \* instance_id[p]: the command's instance_id argument
    weight,       \* weight[p]: the weight the command passes (0 or 10)
    shown,        \* shown[p]: target_instances last rendered by list_clb_targets
    snap,         \* snap[p]: locals of _change_clb_instance_weight after its fetch
    fetched,      \* fetched[p]: the raw Targets the gateway returned to that fetch
    err,          \* err[p]: the exception that ended the command, if any
    calls,        \* calls[p]: BatchModifyTargetWeight requests sent by p
    events        \* events[p]: remote calls, renders and pauses of p, in order

vars == <<lb, pc, instance_id, weight, shown, snap, fetched, err, calls, events>>

-----------------------------------------------------------------------------
(* Bounds of the model *)

\* longest raw target list of the single rule in the workflow specifications
MaxTargets == 4
\* longest raw target list when two invocations run concurrently
MaxConcTargets == 3
\* longest raw target list given to the aggregation alone
MaxRaw == 3

-----------------------------------------------------------------------------
(* Values *)

Procs == {1, 2}

\* weight passed by online_clb_instance and by offline_clb_instance
OnlineWeight == 10
OfflineWeight == 0

clb_id == "lb-1"
InstanceIds == {"ins-a", "ins-b"}
Ports == {80, 443}
Weights == {OfflineWeight, OnlineWeight}

\* Strings that are compared with < are sequences of character codes.
NameApi == <<1, 2>>
NameWeb == <<2>>
Names == {NameApi, NameWeb}

\* A CVM instance has one name and one primary private IP.
IpOf(id) == IF id = "ins-a" THEN "10.0.0.1" ELSE "10.0.0.2"
NameOf(id) == IF id = "ins-a" THEN NameWeb ELSE NameApi

Backend(id, name, ips, port, w) ==
    [InstanceId |-> id, InstanceName |-> name, PrivateIpAddresses |-> ips,
     Port |-> port, Weight |-> w]

Rule(location_id, targets) == [LocationId |-> location_id, Targets |-> targets]

Listener(listener_id, rulesNone, rules) ==
    [ListenerId |-> listener_id, RulesNone |-> rulesNone, Rules |-> rules]

\* A response whose Listeners (or a listener whose Rules) is None carries the
\* flag and an empty sequence.
Response(listenersNone, listeners) ==
    [ListenersNone |-> listenersNone, Listeners |-> listeners]

SeqsUpTo(S, n) == UNION {[1..k -> S] : k \in 0..n}

-----------------------------------------------------------------------------
(* _req_describe_targets *)

\* Python's < on str: lexicographic by code point, a proper prefix is smaller.
RECURSIVE StrLess(_, _)
StrLess(a, b) ==
    IF b = <<>> THEN FALSE
    ELSE IF a = <<>> THEN TRUE
    ELSE IF Head(a) # Head(b) THEN Head(a) < Head(b)
    ELSE StrLess(Tail(a), Tail(b))

\* index of the entry of targets_by_ip with key ip, 0 when the key is absent
RECURSIVE IndexOfIp(_, _, _)
IndexOfIp(targets_by_ip, ip, i) ==
    IF i > Len(targets_by_ip) THEN 0
    ELSE IF targets_by_ip[i].PrivateIpAddresses = ip THEN i
    ELSE IndexOfIp(targets_by_ip, ip, i + 1)

\* grouping under the last listed private IP instead of the first
GroupKeyLast(target) == target.PrivateIpAddresses[Len(target.PrivateIpAddresses)]

\* the key a raw record is grouped under
GroupKey(target) == target.PrivateIpAddresses[1]

\* One iteration of the loop over listener.Rules[0].Targets.  The dict
\* targets_by_ip is the sequence of its values in insertion order.
AddTarget(targets_by_ip, target) ==
    LET private_ip == GroupKey(target)
        i == IndexOfIp(targets_by_ip, private_ip, 1)
        withKey == IF i = 0
                   THEN Append(targets_by_ip,
                               [InstanceId |-> target.InstanceId,
                                InstanceName |-> target.InstanceName,
                                PrivateIpAddresses |-> private_ip,
                                Ports |-> <<>>])
                   ELSE targets_by_ip
        j == IF i = 0 THEN Len(withKey) ELSE i
    IN [withKey EXCEPT ![j].Ports = Append(@, <<target.Port, target.Weight>>)]

RECURSIVE GroupByIp(_, _)
GroupByIp(targets, targets_by_ip) ==
    IF targets = <<>> THEN targets_by_ip
    ELSE GroupByIp(Tail(targets), AddTarget(targets_by_ip, Head(targets)))

\* position at which a stable ascending sort places instance behind the
\* already sorted prefix: after every element whose key is not greater
RECURSIVE InsertPos(_, _, _)
InsertPos(sorted, instance, i) ==
    IF i > Len(sorted) THEN i
    ELSE IF StrLess(instance.InstanceName, sorted[i].InstanceName) THEN i
    ELSE InsertPos(sorted, instance, i + 1)

InsertSorted(sorted, instance) ==
    LET k == InsertPos(sorted, instance, 1)
    IN SubSeq(sorted, 1, k - 1) \o <<instance>> \o SubSeq(sorted, k, Len(sorted))

\* sorted(targets_by_ip.values(), key=InstanceName): stable, ascending
RECURSIVE SortByName(_, _)
SortByName(values, sorted) ==
    IF values = <<>> THEN sorted
    ELSE SortByName(Tail(values), InsertSorted(sorted, Head(values)))

Aggregate(targets) == SortByName(GroupByIp(targets, <<>>), <<>>)

NoError == [kind |-> "none", count |-> 0]
Error(kind, count) == [kind |-> kind, count |-> count]

\* the count the "Rules" message interpolates
RulesMessageCount(resp) == Len(resp.Listeners)

\* The exception _req_describe_targets raises on resp, NoError when it returns.
DescribeError(resp) ==
    IF resp.ListenersNone THEN Error("ListenersNone", 0)
    ELSE IF Len(resp.Listeners) # 1
    THEN Error("ListenerCount", Len(resp.Listeners))
    ELSE IF resp.Listeners[1].RulesNone THEN Error("RulesNone", 0)
    ELSE IF Len(resp.Listeners[1].Rules) # 1
    THEN Error("RuleCount", RulesMessageCount(resp))
    ELSE NoError

\* The triple _req_describe_targets returns when it raises nothing.
DescribeTargets(resp) ==
    LET listener == resp.Listeners[1]
    IN [target_instances |-> Aggregate(listener.Rules[1].Targets),
        listener_id |-> listener.ListenerId,
        location_id |-> listener.Rules[1].LocationId]

NoSnapshot == [target_instances |-> <<>>, listener_id |-> "", location_id |-> ""]

-----------------------------------------------------------------------------
(* _change_clb_instance_weight: the guard and the lookup *)

\* the port scan stopping after the first port
HasNonZeroFirstPort(ports, k) == ports[k][2] # 0

RECURSIVE HasNonZeroPort(_, _)
HasNonZeroPort(ports, k) ==
    IF k > Len(ports) THEN FALSE
    ELSE IF ports[k][2] # 0 THEN TRUE
    ELSE HasNonZeroPort(ports, k + 1)

\* a scan that does not skip the requested instance
IsCurrentNever(instance, id) == FALSE

\* the instances the guard's scan skips
IsCurrent(instance, id) == instance.InstanceId = id

\* value of others_offline after the loop over target_instances
RECURSIVE OthersOffline(_, _, _)
OthersOffline(target_instances, id, i) ==
    IF i > Len(target_instances) THEN TRUE
    ELSE IF IsCurrent(target_instances[i], id)
    THEN OthersOffline(target_instances, id, i + 1)
    ELSE IF HasNonZeroPort(target_instances[i].Ports, 1) THEN FALSE
    ELSE OthersOffline(target_instances, id, i + 1)

\* the guard applied to the online request instead of the drain
GuardOnOnline(target_instances, id, w) ==
    w = 10 /\ OthersOffline(target_instances, id, 1)

\* whether the drain guard raises
GuardRejects(target_instances, id, w) ==
    w = 0 /\ OthersOffline(target_instances, id, 1)

\* the lookup reading the loop variable after the loop: without a match it
\* is left at the last instance
FindInstanceLoopVar(target_instances, id, i) ==
    IF \E k \in DOMAIN target_instances : target_instances[k].InstanceId = id
    THEN CHOOSE k \in DOMAIN target_instances :
            /\ target_instances[k].InstanceId = id
            /\ \A j \in 1..(k - 1) : target_instances[j].InstanceId # id
    ELSE Len(target_instances)

\* index of current_instance in target_instances, 0 when it stays None
RECURSIVE FindInstance(_, _, _)
FindInstance(target_instances, id, i) ==
    IF i > Len(target_instances) THEN 0
    ELSE IF target_instances[i].InstanceId = id THEN i
    ELSE FindInstance(target_instances, id, i + 1)

\* port[1] taken for port[0]
PortListWeights(instance) == [k \in 1..Len(instance.Ports) |-> instance.Ports[k][2]]

\* [port[0] for port in current_instance["Ports"]]
PortList(instance) == [k \in 1..Len(instance.Ports) |-> instance.Ports[k][1]]

-----------------------------------------------------------------------------
(* _req_batch_modify_target_weight and the gateway's effect *)

\* a target list that keeps only the first port
TargetListFirstPort(id, ports) ==
    IF ports = <<>> THEN <<>> ELSE <<[InstanceId |-> id, Port |-> ports[1]]>>

TargetList(id, ports) ==
    [k \in 1..Len(ports) |-> [InstanceId |-> id, Port |-> ports[k]]]

ModifyRequest(listener_id, location_id, id, ports, w) ==
    [LoadBalancerId |-> clb_id,
     ModifyList |-> <<[ListenerId |-> listener_id,
                       LocationId |-> location_id,
                       Weight |-> w,
                       Targets |-> TargetList(id, ports)]>>]

Addressed(rsw, target) ==
    \E k \in 1..Len(rsw.Targets) :
        /\ rsw.Targets[k].InstanceId = target.InstanceId
        /\ rsw.Targets[k].Port = target.Port

\* The load balancer after the gateway applied req: every target the request
\* names, under the listener and rule it names, gets the request's weight.
BatchModifyTargetWeight(resp, req) ==
    LET rsw == req.ModifyList[1]
        newTarget(t) == IF Addressed(rsw, t) THEN [t EXCEPT !.Weight = rsw.Weight]
                        ELSE t
        newRule(r) == IF r.LocationId = rsw.LocationId
                      THEN [r EXCEPT !.Targets =
                                [k \in 1..Len(r.Targets) |-> newTarget(r.Targets[k])]]
                      ELSE r
        newListener(l) == IF l.ListenerId = rsw.ListenerId
                          THEN [l EXCEPT !.Rules =
                                    [k \in 1..Len(l.Rules) |-> newRule(l.Rules[k])]]
                          ELSE l
    IN [resp EXCEPT !.Listeners =
            [k \in 1..Len(resp.Listeners) |-> newListener(resp.Listeners[k])]]

-----------------------------------------------------------------------------
(* Initial states *)

FixedTargets == <<Backend("ins-a", NameOf("ins-a"), <<IpOf("ins-a")>>, 80, 10)>>

GoodLB(targets) ==
    Response(FALSE, <<Listener("lbl-1", FALSE, <<Rule("loc-1", targets)>>)>>)

\* responses _req_describe_targets refuses
BadLBs ==
    { Response(TRUE, <<>>),
      Response(FALSE, <<>>),
      Response(FALSE, <<Listener("lbl-1", FALSE, <<Rule("loc-1", FixedTargets)>>),
                        Listener("lbl-2", FALSE, <<Rule("loc-2", <<>>)>>)>>),
      Response(FALSE, <<Listener("lbl-1", TRUE, <<>>)>>),
      Response(FALSE, <<Listener("lbl-1", FALSE, <<>>)>>),
      Response(FALSE, <<Listener("lbl-1", FALSE, <<Rule("loc-1", FixedTargets),
                                                  Rule("loc-2", <<>>)>>)>>),
      Response(FALSE, <<Listener("lbl-1", FALSE, <<Rule("loc-1", FixedTargets),
                                                  Rule("loc-2", <<>>),
                                                  Rule("loc-3", <<>>)>>)>>) }

\* Target lists of a rule whose backends are CVM instances: a target is one
\* (instance, port) pair, registered once, and carries its instance's name
\* and primary private IP.  The gateway lists them in any order.
CvmTargets(n) ==
    LET triples == InstanceIds \X Ports \X Weights
        distinct(s) == \A i, j \in DOMAIN s :
                          (s[i][1] = s[j][1] /\ s[i][2] = s[j][2]) => i = j
    IN { [k \in DOMAIN s |->
              Backend(s[k][1], NameOf(s[k][1]), <<IpOf(s[k][1])>>, s[k][2], s[k][3])] :
         s \in {q \in SeqsUpTo(triples, n) : distinct(q)} }

\* Arbitrary raw records: name and instance id vary freely per record, and a
\* record may list more than one private IP.
RawBackends ==
    { Backend(id, name, ips, pw[1], pw[2]) :
        id \in InstanceIds, name \in Names,
        ips \in {<<"10.0.0.1">>, <<"10.0.0.2", "10.0.0.1">>, <<"10.0.0.3">>},
        pw \in {<<80, 10>>, <<443, 0>>} }

InitProcs ==
    /\ pc = [p \in Procs |-> "idle"]
    /\ instance_id = [p \in Procs |-> ""]
    /\ weight = [p \in Procs |-> OfflineWeight]
    /\ shown = [p \in Procs |-> <<>>]
    /\ snap = [p \in Procs |-> NoSnapshot]
    /\ fetched = [p \in Procs |-> <<>>]
    /\ err = [p \in Procs |-> NoError]
    /\ calls = [p \in Procs |-> <<>>]
    /\ events = [p \in Procs |-> <<>>]

Init ==
    /\ lb \in {GoodLB(t) : t \in CvmTargets(MaxTargets)} \cup BadLBs
    /\ InitProcs

InitConc ==
    /\ lb \in {GoodLB(t) : t \in CvmTargets(MaxConcTargets)}
    /\ InitProcs

InitAgg ==
    /\ lb \in {GoodLB(t) : t \in SeqsUpTo(RawBackends, MaxRaw)}
    /\ InitProcs

-----------------------------------------------------------------------------
(* Actions *)

Fail(p, e) ==
    /\ pc' = [pc EXCEPT ![p] = "failed"]
    /\ err' = [err EXCEPT ![p] = e]

\* list_clb_targets: query, aggregate, render
ListTargets(p, next) ==
    IF DescribeError(lb) # NoError
    THEN /\ Fail(p, DescribeError(lb))
         /\ events' = [events EXCEPT ![p] = Append(@, "fetch")]
         /\ UNCHANGED shown
    ELSE /\ shown' = [shown EXCEPT ![p] = DescribeTargets(lb).target_instances]
         /\ events' = [events EXCEPT ![p] = @ \o <<"fetch", "render">>]
         /\ pc' = [pc EXCEPT ![p] = next]
         /\ UNCHANGED err

\* the command list-clb-targets
list_clb_targets(p) ==
    /\ pc[p] = "idle"
    /\ ListTargets(p, "done")
    /\ UNCHANGED <<lb, instance_id, weight, snap, fetched, calls>>

\* the command online-clb-instance is started with some instance id
online_clb_instance(p) ==
    /\ pc[p] = "idle"
    /\ \E id \in InstanceIds : instance_id' = [instance_id EXCEPT ![p] = id]
    /\ weight' = [weight EXCEPT ![p] = OnlineWeight]
    /\ pc' = [pc EXCEPT ![p] = "list_before"]
    /\ UNCHANGED <<lb, shown, snap, fetched, err, calls, events>>

\* the command offline-clb-instance is started with some instance id
offline_clb_instance(p) ==
    /\ pc[p] = "idle"
    /\ \E id \in InstanceIds : instance_id' = [instance_id EXCEPT ![p] = id]
    /\ weight' = [weight EXCEPT ![p] = OfflineWeight]
    /\ pc' = [pc EXCEPT ![p] = "list_before"]
    /\ UNCHANGED <<lb, shown, snap, fetched, err, calls, events>>

\* first statement of online_/offline_clb_instance
ListBefore(p) ==
    /\ pc[p] = "list_before"
    /\ ListTargets(p, "change_fetch")
    /\ UNCHANGED <<lb, instance_id, weight, snap, fetched, calls>>

\* the weight changer reusing the instances list_clb_targets rendered
StaleSnapshot(p) == [DescribeTargets(lb) EXCEPT !.target_instances = shown[p]]

\* the snapshot _change_clb_instance_weight decides on
ChangerSnapshot(p) == DescribeTargets(lb)

\* _change_clb_instance_weight up to the return of _req_describe_targets
ChangeFetch(p) ==
    /\ pc[p] = "change_fetch"
    /\ events' = [events EXCEPT ![p] = Append(@, "fetch")]
    /\ IF DescribeError(lb) # NoError
       THEN /\ Fail(p, DescribeError(lb))
            /\ UNCHANGED <<snap, fetched>>
       ELSE /\ snap' = [snap EXCEPT ![p] = ChangerSnapshot(p)]
            /\ fetched' = [fetched EXCEPT ![p] = lb.Listeners[1].Rules[1].Targets]
            /\ pc' = [pc EXCEPT ![p] = "change_modify"]
            /\ UNCHANGED err
    /\ UNCHANGED <<lb, instance_id, weight, shown, calls>>

\* listener_id and location_id passed in each other's place
ChangeRequestSwapped(s, id, w, current) ==
    ModifyRequest(s.location_id, s.listener_id, id, PortList(current), w)

\* the request _change_clb_instance_weight sends for current_instance
ChangeRequest(s, id, w, current) ==
    ModifyRequest(s.listener_id, s.location_id, id, PortList(current), w)

\* _change_clb_instance_weight from the guard to the gateway call
ChangeModify(p) ==
    /\ pc[p] = "change_modify"
    /\ LET s == snap[p]
           i == FindInstance(s.target_instances, instance_id[p], 1)
       IN IF GuardRejects(s.target_instances, instance_id[p], weight[p])
          THEN /\ Fail(p, Error("OthersOffline", 0))
               /\ events' = [events EXCEPT ![p] = Append(@, "guard")]
               /\ UNCHANGED <<lb, calls>>
          ELSE IF i = 0
          THEN /\ Fail(p, Error("NotFound", 0))
               /\ events' = [events EXCEPT ![p] = Append(@, "guard")]
               /\ UNCHANGED <<lb, calls>>
          ELSE LET req == ChangeRequest(s, instance_id[p], weight[p],
                                        s.target_instances[i])
               IN /\ lb' = BatchModifyTargetWeight(lb, req)
                  /\ calls' = [calls EXCEPT ![p] = Append(@, req)]
                  /\ events' = [events EXCEPT ![p] = @ \o <<"guard", "mutate">>]
                  /\ pc' = [pc EXCEPT ![p] = "sleep"]
                  /\ UNCHANGED err
    /\ UNCHANGED <<instance_id, weight, shown, snap, fetched>>

\* time.sleep(3)
Sleep(p) ==
    /\ pc[p] = "sleep"
    /\ pc' = [pc EXCEPT ![p] = "list_after"]
    /\ events' = [events EXCEPT ![p] = Append(@, "sleep")]
    /\ UNCHANGED <<lb, instance_id, weight, shown, snap, fetched, err, calls>>

\* last statement of online_/offline_clb_instance
ListAfter(p) ==
    /\ pc[p] = "list_after"
    /\ ListTargets(p, "done")
    /\ UNCHANGED <<lb, instance_id, weight, snap, fetched, calls>>

\* The process ends (normally or by the exception); the operator's next
\* invocation starts with nothing kept from this one.
Exit(p) ==
    /\ pc[p] \in {"done", "failed"}
    /\ pc' = [pc EXCEPT ![p] = "idle"]
    /\ instance_id' = [instance_id EXCEPT ![p] = ""]
    /\ weight' = [weight EXCEPT ![p] = OfflineWeight]
    /\ shown' = [shown EXCEPT ![p] = <<>>]
    /\ snap' = [snap EXCEPT ![p] = NoSnapshot]
    /\ fetched' = [fetched EXCEPT ![p] = <<>>]
    /\ err' = [err EXCEPT ![p] = NoError]
    /\ calls' = [calls EXCEPT ![p] = <<>>]
    /\ events' = [events EXCEPT ![p] = <<>>]
    /\ UNCHANGED lb

-----------------------------------------------------------------------------
(* Specifications *)

\* One operator, one invocation at a time, any number of invocations.
Operator == 1

Next ==
    \/ online_clb_instance(Operator)
    \/ offline_clb_instance(Operator)
    \/ ListBefore(Operator)
    \/ ChangeFetch(Operator)
    \/ ChangeModify(Operator)
    \/ Sleep(Operator)
    \/ ListAfter(Operator)
    \/ Exit(Operator)

Spec == Init /\ [][Next]_vars

\* Two invocations, one command each, interleaved at every remote call.
NextConc ==
    \E p \in Procs :
        \/ online_clb_instance(p)
        \/ offline_clb_instance(p)
        \/ ListBefore(p)
        \/ ChangeFetch(p)
        \/ ChangeModify(p)
        \/ Sleep(p)
        \/ ListAfter(p)

SpecConc == InitConc /\ [][NextConc]_vars

\* list-clb-targets on arbitrary raw records.
NextAgg == list_clb_targets(Operator)

SpecAgg == InitAgg /\ [][NextAgg]_vars

-----------------------------------------------------------------------------
(* Vocabulary of the properties *)

\* raw targets of the single rule, as the gateway holds them now
RawTargets == lb.Listeners[1].Rules[1].Targets

SingleRule ==
    /\ ~lb.ListenersNone
    /\ Len(lb.Listeners) = 1
    /\ ~lb.Listeners[1].RulesNone
    /\ Len(lb.Listeners[1].Rules) = 1

\* p's weight change sent its request
Mutated(p) == pc[p] \in {"sleep", "list_after", "done"}

\* p's weight change ended in the guard's or the lookup's exception
Refused(p) == pc[p] = "failed" /\ err[p].kind \in {"OthersOffline", "NotFound"}

\* p's weight change is past the guard and the lookup
Decided(p) == Mutated(p) \/ Refused(p)

\* in p's snapshot, some aggregated instance other than the requested one
\* has a port with non-zero weight
OtherLive(p) ==
    \E i \in DOMAIN snap[p].target_instances :
        /\ snap[p].target_instances[i].InstanceId # instance_id[p]
        /\ \E k \in DOMAIN snap[p].target_instances[i].Ports :
               snap[p].target_instances[i].Ports[k][2] # 0

\* the requested instance id matches an aggregated instance of p's snapshot
Present(p) ==
    \E i \in DOMAIN snap[p].target_instances :
        snap[p].target_instances[i].InstanceId = instance_id[p]

\* some target of the load balancer has non-zero weight
Live ==
    \E i \in DOMAIN lb.Listeners : \E j \in DOMAIN lb.Listeners[i].Rules :
        \E k \in DOMAIN lb.Listeners[i].Rules[j].Targets :
            lb.Listeners[i].Rules[j].Targets[k].Weight # 0

-----------------------------------------------------------------------------
(* Properties *)

\* C1: a weight-0 request for X whose snapshot has no aggregated instance
\* other than X with a non-zero port (none at all included) ends in the
\* "others offline" error and sends no BatchModifyTargetWeight request.
C1_DrainRejected ==
    \A p \in Procs :
        (Decided(p) /\ weight[p] = 0 /\ ~OtherLive(p))
            => /\ pc[p] = "failed"
               /\ err[p].kind = "OthersOffline"
               /\ calls[p] = <<>>

\* a drain of the only instance of the load balancer, itself live, is refused
C1_Witness ==
    /\ pc[Operator] = "failed"
    /\ err[Operator].kind = "OthersOffline"
    /\ Len(snap[Operator].target_instances) = 1
    /\ Present(Operator)
    /\ Live

BothDrained(p, q) ==
    /\ p # q
    /\ weight[p] = 0 /\ weight[q] = 0
    /\ instance_id[p] # instance_id[q]
    /\ Mutated(p) /\ Mutated(q)

\* C3: when two concurrent drains of different instances have both sent
\* their request, each guard had passed on its own snapshot (the other
\* instance was live in it) and no target of the two instances keeps a
\* non-zero weight: with no third live instance the service is fully offline.
C3_RaceDrainsBoth ==
    \A p, q \in Procs :
        BothDrained(p, q)
            => /\ OtherLive(p) /\ OtherLive(q)
               /\ \A k \in DOMAIN RawTargets :
                      RawTargets[k].InstanceId \in {instance_id[p], instance_id[q]}
                          => RawTargets[k].Weight = 0

\* the interleaving exists: both drains went through and nothing is live
C3_Witness ==
    /\ BothDrained(1, 2)
    /\ RawTargets # <<>>
    /\ ~Live

\* C4: a weight change for an instance id that matches no aggregated instance
\* of the snapshot ends in an error, sends no request and leaves the targets
\* as they were fetched.
C4_AbsentRejected ==
    \A p \in Procs :
        (Decided(p) /\ ~Present(p))
            => /\ Refused(p)
               /\ calls[p] = <<>>
               /\ RawTargets = fetched[p]

\* a drain passed the guard (another instance is live) and then did not
\* find its instance
C4_Witness ==
    /\ pc[Operator] = "failed"
    /\ err[Operator].kind = "NotFound"
    /\ weight[Operator] = 0
    /\ OtherLive(Operator)

\* ports of the raw targets that p's fetch returned for the requested instance
FetchedPorts(p) ==
    {fetched[p][k].Port : k \in {j \in DOMAIN fetched[p] :
                                     fetched[p][j].InstanceId = instance_id[p]}}

\* C5: a weight change that passes the guard and the lookup sends exactly one
\* request: one rule with the requested weight, the listener id and location
\* id of the fetched response, and one target (X, port) for every port the
\* fetch recorded for X, whatever the ports' current weights.
C5_OneUniformRequest ==
    \A p \in Procs :
        Mutated(p)
            => /\ Len(calls[p]) = 1
               /\ calls[p][1].LoadBalancerId = clb_id
               /\ Len(calls[p][1].ModifyList) = 1
               /\ LET rsw == calls[p][1].ModifyList[1]
                  IN /\ rsw.Weight = weight[p]
                     /\ rsw.ListenerId = lb.Listeners[1].ListenerId
                     /\ rsw.LocationId = lb.Listeners[1].Rules[1].LocationId
                     /\ \A k \in DOMAIN rsw.Targets :
                            rsw.Targets[k].InstanceId = instance_id[p]
                     /\ {rsw.Targets[k].Port : k \in DOMAIN rsw.Targets}
                            = FetchedPorts(p)
                     /\ Len(rsw.Targets) = Cardinality(FetchedPorts(p))

\* an instance with ports 80 and 443 already at weight 10 is set to 10 again
C5_Witness ==
    /\ pc[Operator] = "sleep"
    /\ weight[Operator] = 10
    /\ FetchedPorts(Operator) = {80, 443}
    /\ \A k \in DOMAIN fetched[Operator] :
           fetched[Operator][k].InstanceId = instance_id[Operator]
               => fetched[Operator][k].Weight = 10
    /\ Len(calls[Operator]) = 1

SuccessfulRun ==
    <<"fetch", "render", "fetch", "guard", "mutate", "sleep", "fetch", "render">>

\* a raw target of p's fetch, not of the requested instance, with non-zero weight
FetchedOtherLive(p) ==
    \E k \in DOMAIN fetched[p] :
        fetched[p][k].InstanceId # instance_id[p] /\ fetched[p][k].Weight # 0

\* C6: a command that completes has fetched and rendered, fetched again in
\* the weight changer, decided and sent the request, paused, fetched and
\* rendered, in this order; and the guard, the lookup and the request's ports
\* agree with the raw targets returned to the weight changer's own fetch.
C6_OrderAndFreshDecision ==
    \A p \in Procs :
        /\ pc[p] = "done" => events[p] = SuccessfulRun
        /\ Mutated(p) =>
              /\ weight[p] = 0 => FetchedOtherLive(p)
              /\ FetchedPorts(p) # {}
              /\ {calls[p][1].ModifyList[1].Targets[k].Port :
                      k \in DOMAIN calls[p][1].ModifyList[1].Targets} = FetchedPorts(p)
        /\ (pc[p] = "failed" /\ err[p].kind = "OthersOffline") => ~FetchedOtherLive(p)
        /\ (pc[p] = "failed" /\ err[p].kind = "NotFound") => FetchedPorts(p) = {}

\* the first render showed another instance live; it was drained before
\* the weight changer's fetch, and the guard refused on what that fetch saw
C6_Witness ==
    \E p \in Procs :
        /\ pc[p] = "failed"
        /\ err[p].kind = "OthersOffline"
        /\ \E i \in DOMAIN shown[p] :
              /\ shown[p][i].InstanceId # instance_id[p]
              /\ \E k \in DOMAIN shown[p][i].Ports : shown[p][i].Ports[k][2] # 0

\* C7: the topology errors name the offending count: the number of listeners
\* when it is not one, the number of rules when that is not one.
C7_MessageNamesCount ==
    \A p \in Procs :
        /\ err[p].kind = "ListenerCount" => err[p].count = Len(lb.Listeners)
        /\ err[p].kind = "RuleCount" => err[p].count = Len(lb.Listeners[1].Rules)

\* index of the first raw target whose first private IP is ip
FirstWithIp(ip) ==
    CHOOSE k \in DOMAIN RawTargets :
        /\ RawTargets[k].PrivateIpAddresses[1] = ip
        /\ \A j \in 1..(k - 1) : RawTargets[j].PrivateIpAddresses[1] # ip

\* the (port, weight) pairs of the raw targets whose first private IP is ip,
\* in raw order
RECURSIVE PairsOf(_, _)
PairsOf(raw, ip) ==
    IF raw = <<>> THEN <<>>
    ELSE IF Head(raw).PrivateIpAddresses[1] = ip
    THEN <<<<Head(raw).Port, Head(raw).Weight>>>> \o PairsOf(Tail(raw), ip)
    ELSE PairsOf(Tail(raw), ip)

\* a <= b for names: every position up to the first difference agrees and
\* there a is smaller, or a is a prefix of b
NameLeq(a, b) ==
    \/ /\ Len(a) <= Len(b)
       /\ \A i \in 1..Len(a) : a[i] = b[i]
    \/ \E i \in 1..Len(a) :
          /\ i <= Len(b)
          /\ a[i] < b[i]
          /\ \A j \in 1..(i - 1) : a[j] = b[j]

\* C8: list-clb-targets shows exactly one record per distinct first private
\* IP of the raw targets, holding the (port, weight) pairs of the raw targets
\* with that first IP in raw order; records ascend by instance name, and
\* records of equal name keep the order of first appearance.
C8_Aggregation ==
    pc[Operator] = "done" =>
        LET out == shown[Operator]
        IN /\ {out[i].PrivateIpAddresses : i \in DOMAIN out}
                  = {RawTargets[k].PrivateIpAddresses[1] : k \in DOMAIN RawTargets}
           /\ \A i, j \in DOMAIN out :
                  out[i].PrivateIpAddresses = out[j].PrivateIpAddresses => i = j
           /\ \A i \in DOMAIN out :
                  out[i].Ports = PairsOf(RawTargets, out[i].PrivateIpAddresses)
           /\ \A i, j \in DOMAIN out :
                  i < j =>
                     /\ NameLeq(out[i].InstanceName, out[j].InstanceName)
                     /\ out[i].InstanceName = out[j].InstanceName
                          => FirstWithIp(out[i].PrivateIpAddresses)
                                 < FirstWithIp(out[j].PrivateIpAddresses)

\* three groups, two of them with the same name, and the record shown first
\* is the one whose IP came last in the input
C8_Witness ==
    /\ pc[Operator] = "done"
    /\ Len(shown[Operator]) = 3
    /\ shown[Operator][2].InstanceName = shown[Operator][3].InstanceName
    /\ shown[Operator][1].InstanceName # shown[Operator][2].InstanceName
    /\ FirstWithIp(shown[Operator][1].PrivateIpAddresses) = 3
    /\ \E i \in DOMAIN shown[Operator] : Len(shown[Operator][i].Ports) = 1

\* the targets after a request for instance id with weight w
Reweighted(targets, id, w) ==
    [k \in DOMAIN targets |->
        IF targets[k].InstanceId = id THEN [targets[k] EXCEPT !.Weight = w]
        ELSE targets[k]]

C10_DrainPermitted ==
    \A p \in Procs :
        (Decided(p) /\ weight[p] = 0 /\ Present(p) /\ OtherLive(p))
            => /\ Mutated(p)
               /\ err[p] = NoError
               /\ Len(calls[p]) = 1

\* B with port weights 10 and 0 is drained while A has both ports at 10
C10_Witness ==
    /\ pc[Operator] = "sleep"
    /\ weight[Operator] = 0
    /\ Len(calls[Operator]) = 1
    /\ Len(fetched[Operator]) = 4
    /\ \E k \in DOMAIN fetched[Operator] :
           /\ fetched[Operator][k].InstanceId = instance_id[Operator]
           /\ fetched[Operator][k].Weight = 0
    /\ \E k \in DOMAIN fetched[Operator] :
           /\ fetched[Operator][k].InstanceId = instance_id[Operator]
           /\ fetched[Operator][k].Weight = 10
    /\ \A k \in DOMAIN fetched[Operator] :
           fetched[Operator][k].InstanceId # instance_id[Operator]
               => fetched[Operator][k].Weight = 10

====
